---- MODULE Spec2Model ----
(***************************************************************************)
(* A model of bayou's evidence layer (src/ml/bayou/core/evidence.py):      *)
(* the Evidence base class with its config handling and registry, and the  *)
(* four evidence kinds Keywords, Types, Context and Javadoc.               *)
(*                                                                         *)
(* Python strings that the code takes apart (method calls, javadoc) are    *)
(* sequences of one-character strings; strings the code only compares      *)
(* (evidence names, attribute names, bag tokens) are TLA+ strings.         *)
(* A value that may be absent is a sequence of length 0 or 1.              *)
(***************************************************************************)
EXTENDS Integers, Sequences, FiniteSets, TLC

VARIABLES
    pc,         \* the position of the caller: "new", then the last call made
    self,       \* the Evidence instance the call is made on
    arg,        \* the argument of the call
    ret,        \* the value the last call returned: <<>> or <<value>>
    err,        \* the exception the last call raised, "none" if it returned
    heap,       \* the instances read_config has constructed, in order
    opened,     \* the files LDA(from_file=...) has read, in order
    fs          \* the persisted vocabulary list, embed_<name>/config.json

vars == <<pc, self, arg, ret, err, heap, opened, fs>>

None == <<>>
Some(x) == <<x>>

----------------------------------------------------------------------------
(* Bounds of the model.                                                    *)

MaxEntries == 3      \* entries of a config list
MaxTokens == 3       \* entries of a list field of a program record
MaxDoc == 4          \* characters of a javadoc string
MaxChars == 3        \* entries of a persisted vocabulary list
MaxPoints == 2       \* token sequences of a corpus
MaxPointLen == 2     \* tokens of a token sequence
MaxSegs == 3         \* dot-segments before the '(' of a method call
MaxIdLen == 2        \* characters of an identifier
MaxArgs == 3         \* arguments of a method call

----------------------------------------------------------------------------
(* Sequences.                                                              *)

RECURSIVE SeqsUpTo(_, _)
SeqsUpTo(S, n) ==
    IF n = 0 THEN {<<>>}
    ELSE LET shorter == SeqsUpTo(S, n - 1)
         IN  shorter \cup {Append(s, x) : s \in {t \in shorter : Len(t) = n - 1}, x \in S}

Range(s) == {s[i] : i \in 1..Len(s)}

NoDuplicates(s) == \A i, j \in 1..Len(s) : s[i] = s[j] => i = j

RECURSIVE Flatten(_)
Flatten(ss) == IF ss = <<>> THEN <<>> ELSE Head(ss) \o Flatten(Tail(ss))

\* The orders in which list(set(xs)) may enumerate a set: Python fixes none.
ListsOfSet(S) == {p \in [1..Cardinality(S) -> S] : \A x \in S : \E i \in DOMAIN p : p[i] = x}

----------------------------------------------------------------------------
(* Characters. "U+00E9" stands for the one character e-acute.              *)

Ord(c) ==
    CASE c = "\t" -> 9
      [] c = " " -> 32
      [] c = "(" -> 40
      [] c = ")" -> 41
      [] c = "," -> 44
      [] c = "." -> 46
      [] c = "<" -> 60
      [] c = ">" -> 62
      [] c = "B" -> 66
      [] c = "K" -> 75
      [] c = "N" -> 78
      [] c = "U" -> 85
      [] c = "[" -> 91
      [] c = "]" -> 93
      [] c = "_" -> 95
      [] c = "a" -> 97
      [] c = "b" -> 98
      [] c = "U+00E9" -> 233

\* str.isspace, which str.split() splits on.
IsSpace(c) == Ord(c) \in (9..13) \cup (28..32)

\* What str.encode('ascii') accepts.
IsAscii(c) == Ord(c) < 128

IsUpper(c) == Ord(c) \in 65..90

IsLower(c) == Ord(c) \in 97..122

----------------------------------------------------------------------------
(* bayou.core.utils: the names evidence.py imports from it.                *)

CONFIG_ENCODER == <<"name", "units", "tile", "pretrained_embed">>

UNK == <<"_", "U", "N", "K", "_">>

C0 == "CLASS0"

Lower(c) == IF c = "B" THEN "b" ELSE c

\* str.split(sep): the pieces between the separators, empty pieces kept;
\* scanned from the i-th character on.
RECURSIVE SplitOnFrom(_, _, _, _, _)
SplitOnFrom(s, sep, i, cur, out) ==
    IF i > Len(s) THEN Append(out, cur)
    ELSE IF s[i] = sep THEN SplitOnFrom(s, sep, i + 1, <<>>, Append(out, cur))
    ELSE SplitOnFrom(s, sep, i + 1, Append(cur, s[i]), out)

SplitOn(s, sep) == SplitOnFrom(s, sep, 1, <<>>, <<>>)

\* split_camel: the identifier cut before every uppercase letter that follows
\* a lowercase one, each piece lowercased; the empty string gives one empty
\* piece.
RECURSIVE SplitCamelFrom(_, _, _, _)
SplitCamelFrom(s, i, cur, out) ==
    IF i > Len(s) THEN Append(out, cur)
    ELSE IF i > 1 /\ IsUpper(s[i]) /\ IsLower(s[i - 1])
         THEN SplitCamelFrom(s, i + 1, <<Lower(s[i])>>, Append(out, cur))
    ELSE SplitCamelFrom(s, i + 1, Append(cur, Lower(s[i])), out)

split_camel(s) == SplitCamelFrom(s, 1, <<>>, <<>>)

Recognized == Range(CONFIG_ENCODER)

----------------------------------------------------------------------------
(* The Evidence instances.                                                 *)

Kinds == {"Keywords", "Types", "Context", "Javadoc"}

NoLda == "no lda"

\* A freshly constructed instance: no class defines __init__, so it has no
\* attribute at all.
New(kind) == [kind |-> kind, attrs |-> [a \in {} |-> 0], lda |-> NoLda]

HasAttr(obj, a) == a \in DOMAIN obj.attrs

SetAttr(obj, a, v) ==
    [obj EXCEPT !.attrs = [b \in (DOMAIN obj.attrs) \cup {a} |->
                              IF b = a THEN v ELSE obj.attrs[b]]]

\* os.path.join(os.path.join(save_dir, 'embed_<kind>'), 'model.pkl')
EmbedPath(kind) ==
    CASE kind = "Keywords" -> "embed_keywords/model.pkl"
      [] kind = "Types"    -> "embed_types/model.pkl"
      [] kind = "Context"  -> "embed_context/model.pkl"

\* load_embedding: Keywords, Types and Context read their topic model from the
\* save directory; Javadoc inherits the base method, which raises.
load_embedding(obj) ==
    IF obj.kind = "Javadoc"
    THEN [self |-> obj, err |-> "NotImplementedError", opened |-> <<>>]
    ELSE [self |-> [obj EXCEPT !.lda = EmbedPath(obj.kind)],
          err |-> "none",
          opened |-> <<EmbedPath(obj.kind)>>]

\* The loop of init_config from the i-th attribute on: evidence[attr] raises
\* KeyError on an absent key, and the attributes set so far stay set.
RECURSIVE CopyAttrs(_, _, _)
CopyAttrs(obj, evidence, i) ==
    IF i > Len(CONFIG_ENCODER) THEN [self |-> obj, err |-> "none"]
    ELSE LET attr == CONFIG_ENCODER[i]
         IN  IF attr \notin DOMAIN evidence
             THEN [self |-> obj, err |-> "KeyError"]
             ELSE CopyAttrs(SetAttr(obj, attr, evidence[attr]), evidence, i + 1)

init_config(obj, evidence) ==
    LET copied == CopyAttrs(obj, evidence, 1)
    IN  IF copied.err # "none"
        THEN [self |-> copied.self, err |-> copied.err, opened |-> <<>>]
        ELSE load_embedding(copied.self)

DumpedAttrs(obj) == [attr \in Recognized |-> obj.attrs[attr]]

\* A dump_config that iterates over a list lacking 'tile'.
dump_config_no_tile(obj) ==
    IF \E attr \in Recognized : ~HasAttr(obj, attr)
    THEN [ret |-> None, err |-> "AttributeError"]
    ELSE [ret |-> Some([attr \in Recognized \ {"tile"} |-> obj.attrs[attr]]), err |-> "none"]

\* dump_config: __getattribute__ raises AttributeError on an unset attribute.
dump_config(obj) ==
    IF \E attr \in Recognized : ~HasAttr(obj, attr)
    THEN [ret |-> None, err |-> "AttributeError"]
    ELSE [ret |-> Some(DumpedAttrs(obj)), err |-> "none"]

----------------------------------------------------------------------------
(* Config records.                                                         *)

Names == {"keywords", "types", "context", "javadoc", "apicalls"}

AttrValues(a) ==
    CASE a = "name"             -> Names
      [] a = "units"            -> {8, 16}
      [] a = "tile"             -> {1, 2}
      [] a = "pretrained_embed" -> BOOLEAN
      [] a = "latent_size"      -> {8}

EmptyRecord == [a \in {} |-> 0]

Extend(f, a, v) == [b \in (DOMAIN f) \cup {a} |-> IF b = a THEN v ELSE f[b]]

\* The mappings over the keys: every key bound (partial = FALSE), or any of
\* them absent (partial = TRUE).
RECURSIVE Records(_, _)
Records(keys, partial) ==
    IF keys = <<>> THEN {EmptyRecord}
    ELSE LET rest == Records(Tail(keys), partial)
             with == {Extend(f, Head(keys), v) : f \in rest, v \in AttrValues(Head(keys))}
         IN  IF partial THEN rest \cup with ELSE with

\* Any mapping with some of the keys: what a caller can hand to init_config.
AnyRecords == Records(CONFIG_ENCODER \o <<"latent_size">>, TRUE)

\* A config record holds every recognized attribute.
ConfigRecords == Records(CONFIG_ENCODER, FALSE)

IsComplete(evidence) == Recognized \subseteq DOMAIN evidence

Restrict(evidence) == [attr \in Recognized |-> evidence[attr]]

----------------------------------------------------------------------------
(* init_config and dump_config, called on one instance.                    *)

NoInstance == [kind |-> "none", attrs |-> EmptyRecord, lda |-> NoLda]

InitConfigSpec ==
    /\ pc = "new"
    /\ self \in {New(k) : k \in Kinds}
    /\ arg = None
    /\ ret = None
    /\ err = "none"
    /\ heap = <<>>
    /\ opened = <<>>
    /\ fs = <<>>

InitConfig ==
    /\ pc = "new"
    /\ \E evidence \in AnyRecords :
          LET r == init_config(self, evidence)
          IN  /\ self' = r.self
              /\ err' = r.err
              /\ opened' = opened \o r.opened
              /\ arg' = Some(evidence)
    /\ ret' = None
    /\ pc' = "init_config"
    /\ UNCHANGED <<heap, fs>>

DumpConfig ==
    /\ pc \in {"new", "init_config"}
    /\ LET r == dump_config(self)
       IN  /\ ret' = r.ret
           /\ err' = r.err
    /\ pc' = "dump_config"
    /\ UNCHANGED <<self, arg, heap, opened, fs>>

NextConfig == InitConfig \/ DumpConfig

SpecConfig == InitConfigSpec /\ [][NextConfig]_vars

----------------------------------------------------------------------------
(* The registry: Evidence.read_config.                                     *)

\* A chain whose 'types' branch constructs Keywords.
Dispatch_types_as_keywords(name) ==
    IF name = "keywords" THEN Some("Keywords")
    ELSE IF name = "types" THEN Some("Keywords")
    ELSE IF name = "context" THEN Some("Context")
    ELSE None

\* A chain with a branch for 'javadoc'.
Dispatch_with_javadoc(name) ==
    IF name = "keywords" THEN Some("Keywords")
    ELSE IF name = "types" THEN Some("Types")
    ELSE IF name = "context" THEN Some("Context")
    ELSE IF name = "javadoc" THEN Some("Javadoc")
    ELSE None

\* The if/elif chain of read_config: the class a name constructs, if any.
Dispatch(name) ==
    IF name = "keywords" THEN Some("Keywords")
    ELSE IF name = "types" THEN Some("Types")
    ELSE IF name = "context" THEN Some("Context")
    ELSE None

\* The loop of read_config from the i-th entry on. evidences is the list built
\* so far, made the instances constructed so far and files the files read so
\* far; an exception leaves the loop and the list is lost.
RECURSIVE ReadEntries(_, _, _, _, _)
ReadEntries(js, i, evidences, made, files) ==
    IF i > Len(js)
    THEN [ret |-> Some(evidences), err |-> "none", heap |-> made, opened |-> files]
    ELSE LET evidence == js[i]
             cls == Dispatch(evidence["name"])
         IN  IF cls = None
             THEN [ret |-> None, err |-> "TypeError", heap |-> made, opened |-> files]
             ELSE LET r == init_config(New(cls[1]), evidence)
                  IN  IF r.err # "none"
                      THEN [ret |-> None, err |-> r.err,
                            heap |-> Append(made, r.self),
                            opened |-> files \o r.opened]
                      ELSE ReadEntries(js, i + 1, Append(evidences, r.self),
                                       Append(made, r.self), files \o r.opened)

read_config(js) == ReadEntries(js, 1, <<>>, <<>>, <<>>)

\* The config lists handed to read_config: lists of config records.
RegistryRecords == {r \in ConfigRecords : r["tile"] = 1 /\ r["pretrained_embed"] = FALSE}

ConfigLists == SeqsUpTo(RegistryRecords, MaxEntries)

InitRegistry ==
    /\ pc = "new"
    /\ self = NoInstance
    /\ arg = None
    /\ ret = None
    /\ err = "none"
    /\ heap = <<>>
    /\ opened = <<>>
    /\ fs = <<>>

ReadConfig ==
    /\ pc = "new"
    /\ \E js \in ConfigLists :
          LET r == read_config(js)
          IN  /\ ret' = r.ret
              /\ err' = r.err
              /\ heap' = r.heap
              /\ opened' = opened \o r.opened
              /\ arg' = Some(js)
    /\ pc' = "read_config"
    /\ UNCHANGED <<self, fs>>

NextRegistry == ReadConfig

SpecRegistry == InitRegistry /\ [][NextRegistry]_vars

----------------------------------------------------------------------------
(* read_data_point.                                                        *)

HasField(program, f) == f \in DOMAIN program

\* The field Keywords, Types and Context read.
FieldOf(kind) ==
    CASE kind = "Keywords" -> "keywords"
      [] kind = "Types"    -> "types"
      [] kind = "Context"  -> "context"

\* A read_data_point that returns the field as it is.
read_data_point_no_dedup(kind, program) ==
    {IF HasField(program, FieldOf(kind)) THEN program[FieldOf(kind)] ELSE <<>>}

\* Keywords/Types/Context.read_data_point: the values list(set(field)) may
\* take, the field defaulting to [].
read_data_point(kind, program) ==
    LET field == IF HasField(program, FieldOf(kind)) THEN program[FieldOf(kind)] ELSE <<>>
    IN  ListsOfSet(Range(field))

\* str.split(): the maximal runs of non-whitespace characters, scanned from
\* the i-th character on; cur is the run being read, out the runs read.
RECURSIVE SplitFrom(_, _, _, _)
SplitFrom(s, i, cur, out) ==
    LET closed == IF cur = <<>> THEN out ELSE Append(out, cur)
    IN  IF i > Len(s) THEN closed
        ELSE IF IsSpace(s[i]) THEN SplitFrom(s, i + 1, <<>>, closed)
        ELSE SplitFrom(s, i + 1, Append(cur, s[i]), out)

Split(s) == SplitFrom(s, 1, <<>>, <<>>)

\* A read_data_point without the try/except around encode('ascii').
Javadoc_read_data_point_no_ascii(program) ==
    LET javadoc  == IF HasField(program, "javadoc") THEN Some(program["javadoc"]) ELSE None
        present  == IF javadoc = None \/ javadoc = Some(<<>>) THEN UNK ELSE javadoc[1]
    IN  Split(present)

\* Javadoc.read_data_point.
Javadoc_read_data_point(program) ==
    LET javadoc  == IF HasField(program, "javadoc") THEN Some(program["javadoc"]) ELSE None
        present  == IF javadoc = None \/ javadoc = Some(<<>>) THEN UNK ELSE javadoc[1]
        encoded  == IF \E i \in 1..Len(present) : ~IsAscii(present[i]) THEN UNK ELSE present
    IN  Split(encoded)

Tokens == {"list", "add"}

TokenLists == SeqsUpTo(Tokens, MaxTokens)

\* Program records with any of the list fields.
RECURSIVE ProgramsOver(_)
ProgramsOver(fields) ==
    IF fields = <<>> THEN {EmptyRecord}
    ELSE LET rest == ProgramsOver(Tail(fields))
         IN  rest \cup {Extend(f, Head(fields), v) : f \in rest, v \in TokenLists}

BagPrograms == ProgramsOver(<<"keywords", "types", "context">>)

InitBags ==
    /\ pc = "new"
    /\ self \in {New(k) : k \in Kinds \ {"Javadoc"}}
    /\ arg \in {Some(p) : p \in BagPrograms}
    /\ ret = None
    /\ err = "none"
    /\ heap = <<>>
    /\ opened = <<>>
    /\ fs = <<>>

ReadDataPoint(kind) ==
    /\ pc = "new"
    /\ self.kind = kind
    /\ \E r \in read_data_point(kind, arg[1]) : ret' = Some(r)
    /\ err' = "none"
    /\ pc' = "read_data_point"
    /\ UNCHANGED <<self, arg, heap, opened, fs>>

KeywordsReadDataPoint == ReadDataPoint("Keywords")

TypesReadDataPoint == ReadDataPoint("Types")

ContextReadDataPoint == ReadDataPoint("Context")

NextBags == KeywordsReadDataPoint \/ TypesReadDataPoint \/ ContextReadDataPoint

SpecBags == InitBags /\ [][NextBags]_vars

DocChars == {"a", "b", " ", "\t", "U+00E9"}

Docs == SeqsUpTo(DocChars, MaxDoc)

\* Program records with or without a javadoc string, and with or without
\* another field.
DocPrograms ==
    LET base == {EmptyRecord, Extend(EmptyRecord, "keywords", <<"list">>)}
    IN  base \cup {Extend(f, "javadoc", d) : f \in base, d \in Docs}

InitJavadoc ==
    /\ pc = "new"
    /\ self = New("Javadoc")
    /\ arg \in {Some(p) : p \in DocPrograms}
    /\ ret = None
    /\ err = "none"
    /\ heap = <<>>
    /\ opened = <<>>
    /\ fs = <<>>

JavadocReadDataPoint ==
    /\ pc = "new"
    /\ self.kind = "Javadoc"
    /\ ret' = Some(Javadoc_read_data_point(arg[1]))
    /\ err' = "none"
    /\ pc' = "read_data_point"
    /\ UNCHANGED <<self, arg, heap, opened, fs>>

NextJavadoc == JavadocReadDataPoint

SpecJavadoc == InitJavadoc /\ [][NextJavadoc]_vars

----------------------------------------------------------------------------
(* Javadoc.set_dicts.                                                      *)

\* dict(zip(chars, range(len(chars)))): a key that repeats keeps the index of
\* its last occurrence.
Zip(chars) ==
    [c \in Range(chars) |->
        CHOOSE i \in 0..(Len(chars) - 1) :
            /\ chars[i + 1] = c
            /\ \A j \in 0..(Len(chars) - 1) : chars[j + 1] = c => j <= i]

\* Lines 179-180, after self.chars is set.
WithVocab(obj, chars) ==
    LET vocab == Zip(chars)
    IN  SetAttr(SetAttr(SetAttr(obj, "chars", chars), "vocab", vocab),
                "vocab_size", Cardinality(DOMAIN vocab))

\* set([w for point in data for w in point])
CorpusWords(data) == UNION {Range(data[i]) : i \in 1..Len(data)}

\* The outcomes of set_dicts(data) with file the list under 'chars' in
\* embed_<name>/config.json: an unset attribute raises AttributeError, and
\* list(set(...)) may come in any order.
set_dicts(obj, data, file) ==
    IF ~HasAttr(obj, "pretrained_embed")
    THEN {[self |-> obj, err |-> "AttributeError"]}
    ELSE IF obj.attrs["pretrained_embed"]
    THEN IF ~HasAttr(obj, "save_dir") \/ ~HasAttr(obj, "name")
         THEN {[self |-> obj, err |-> "AttributeError"]}
         ELSE {[self |-> WithVocab(obj, file), err |-> "none"]}
    ELSE {[self |-> WithVocab(obj, <<C0>> \o p), err |-> "none"] :
              p \in ListsOfSet(CorpusWords(data))}

Words == {"the", "list", C0}

Corpora == SeqsUpTo(SeqsUpTo(Words, MaxPointLen), MaxPoints)

VocabFiles == SeqsUpTo(Words, MaxChars)

\* A Javadoc instance whose config attributes have been copied in, with or
\* without a save_dir attribute.
JavadocInstances ==
    LET configured == {[New("Javadoc") EXCEPT !.attrs = r] :
                          r \in {c \in ConfigRecords : c["name"] = "javadoc" /\ c["tile"] = 1
                                                          /\ c["units"] = 8}}
    IN  configured \cup {SetAttr(obj, "save_dir", "save") : obj \in configured}

InitDicts ==
    /\ pc = "new"
    /\ self \in JavadocInstances
    /\ arg = None
    /\ ret = None
    /\ err = "none"
    /\ heap = <<>>
    /\ opened = <<>>
    /\ fs \in VocabFiles

SetDicts ==
    /\ pc = "new"
    /\ \E data \in Corpora :
          /\ \E r \in set_dicts(self, data, fs) :
                /\ self' = r.self
                /\ err' = r.err
          /\ arg' = Some(data)
    /\ ret' = None
    /\ pc' = "set_dicts"
    /\ UNCHANGED <<heap, opened, fs>>

NextDicts == SetDicts

SpecDicts == InitDicts /\ [][NextDicts]_vars

----------------------------------------------------------------------------
(* The extraction heuristics: from_call of Keywords, Types and Context.    *)

Reverse(s) == [i \in 1..Len(s) |-> s[Len(s) + 1 - i]]

Last(s) == s[Len(s)]

\* Keywords.from_call: unpacking split[-2:] into two names raises ValueError
\* when split has one element.
Keywords_from_call(call) ==
    LET split == SplitOn(SplitOn(call, "(")[1], ".")
    IN  IF Len(split) < 2 THEN [ret |-> None, err |-> "ValueError"]
        ELSE LET cls  == split[Len(split) - 1]
                 name == split[Len(split)]
             IN  [ret |-> Some(IF cls # name THEN split_camel(name) ELSE <<>>),
                  err |-> "none"]

StartsUpper(q) == IsUpper(q[1])

\* Types.from_call: q[0] raises IndexError on an empty segment, split[0] on
\* an empty list.
Types_from_call(call) ==
    LET segments == SplitOn(SplitOn(call, "(")[1], ".")
        before   == SubSeq(segments, 1, Len(segments) - 1)
    IN  IF \E i \in 1..Len(before) : before[i] = <<>>
        THEN [ret |-> None, err |-> "IndexError"]
        ELSE LET split == Reverse(SelectSeq(before, StartsUpper))
             IN  IF split = <<>> THEN [ret |-> None, err |-> "IndexError"]
                 ELSE LET inner == split_camel(split[1])
                          outer == IF Len(split) > 1 THEN split_camel(split[2]) ELSE <<>>
                      IN  [ret |-> Some(inner \o outer), err |-> "none"]

\* re.sub('<.*', '', arg): the text from the first '<' on is removed.
RECURSIVE RemoveGenerics(_)
RemoveGenerics(a) ==
    IF a = <<>> \/ Head(a) = "<" THEN <<>>
    ELSE <<Head(a)>> \o RemoveGenerics(Tail(a))

\* re.sub('\[\]', '', arg): one pass from the left removes each "[]" it meets.
RECURSIVE RemoveArrays(_)
RemoveArrays(a) ==
    IF a = <<>> THEN <<>>
    ELSE IF Len(a) >= 2 /\ a[1] = "[" /\ a[2] = "]" THEN RemoveArrays(SubSeq(a, 3, Len(a)))
    ELSE <<Head(a)>> \o RemoveArrays(Tail(a))

NonEmpty(c) == c # <<>>

\* Context.from_call: split('(')[1] raises IndexError when the call has no '('.
Context_from_call(call) ==
    LET parts == SplitOn(call, "(")
    IN  IF Len(parts) < 2 THEN [ret |-> None, err |-> "IndexError"]
        ELSE LET args     == SplitOn(SplitOn(parts[2], ")")[1], ",")
                 cleaned  == [i \in 1..Len(args) |->
                                 RemoveArrays(RemoveGenerics(Last(SplitOn(args[i], "."))))]
                 contexts == Flatten([i \in 1..Len(cleaned) |-> split_camel(cleaned[i])])
             IN  [ret |-> Some(SelectSeq(contexts, NonEmpty)), err |-> "none"]

RECURSIVE Join(_, _)
Join(pieces, sep) ==
    IF Len(pieces) = 0 THEN <<>>
    ELSE IF Len(pieces) = 1 THEN pieces[1]
    ELSE pieces[1] \o <<sep>> \o Join(Tail(pieces), sep)

Idents == SeqsUpTo({"a", "B"}, MaxIdLen) \ {<<>>}

\* Method calls: identifiers joined by dots, then an argument list.
QualifiedNames(segments) ==
    {Join(q, ".") : q \in SeqsUpTo(segments, MaxSegs) \ {<<>>}}

KeywordsCalls ==
    {n \o <<"(">> \o a \o <<")">> : n \in QualifiedNames(Idents), a \in {<<>>, <<"a">>}}

\* The same, a dot-segment before the member possibly empty.
TypesCalls ==
    {n \o <<"(">> \o a \o <<")">> :
        n \in {Join(Append(q, m), ".") :
                  q \in SeqsUpTo(Idents \cup {<<>>}, MaxSegs - 1), m \in Idents},
        a \in {<<>>, <<"a">>}}

\* Argument texts: a, B, aB, a.B, B<a>, B<a,B>, a[], B(a).
ArgTexts ==
    { <<"a">>, <<"B">>, <<"a", "B">>, <<"a", ".", "B">>,
      <<"B", "<", "a", ">">>, <<"B", "<", "a", ",", "B", ">">>,
      <<"a", "[", "]">>, <<"B", "(", "a", ")">> }

\* Method calls a(<arguments>), the arguments joined by commas.
ContextCalls ==
    {<<"a", "(">> \o Join(as, ",") \o <<")">> : as \in SeqsUpTo(ArgTexts, MaxArgs)}

InitCall(Calls) ==
    /\ pc = "new"
    /\ self = NoInstance
    /\ arg \in {Some(c) : c \in Calls}
    /\ ret = None
    /\ err = "none"
    /\ heap = <<>>
    /\ opened = <<>>
    /\ fs = <<>>

FromCall(r) ==
    /\ pc = "new"
    /\ ret' = r.ret
    /\ err' = r.err
    /\ pc' = "from_call"
    /\ UNCHANGED <<self, arg, heap, opened, fs>>

KeywordsFromCall == FromCall(Keywords_from_call(arg[1]))

TypesFromCall == FromCall(Types_from_call(arg[1]))

ContextFromCall == FromCall(Context_from_call(arg[1]))

InitKeywords == InitCall(KeywordsCalls)

NextKeywords == KeywordsFromCall

SpecKeywords == InitKeywords /\ [][NextKeywords]_vars

InitTypes == InitCall(TypesCalls)

NextTypes == TypesFromCall

SpecTypes == InitTypes /\ [][NextTypes]_vars

InitContext == InitCall(ContextCalls)

NextContext == ContextFromCall

SpecContext == InitContext /\ [][NextContext]_vars

----------------------------------------------------------------------------
(* The claims about the config handling and the registry.                  *)

ValidNames == {"keywords", "types", "context"}

\* C1 as stated: for every kind and every config record cfg with all the
\* recognized attributes, init_config(cfg, save_dir) returns, and dump_config()
\* after it returns a record over exactly the recognized attributes, equal
\* to cfg on each of them.
C1_RoundTripEveryKind ==
    (pc \in {"init_config", "dump_config"} /\ arg # None /\ IsComplete(arg[1])) =>
        /\ pc = "init_config" => err = "none"
        /\ pc = "dump_config" =>
              /\ err = "none"
              /\ ret # None
              /\ DOMAIN ret[1] = Recognized
              /\ \A a \in Recognized : ret[1][a] = arg[1][a]

\* C1, amended: the round trip holds for Keywords, Types and Context; on a
\* Javadoc instance init_config copies the recognized attributes and then
\* raises NotImplementedError, raised by the load_embedding it inherits.
C1_RoundTrip ==
    (pc \in {"init_config", "dump_config"} /\ arg # None /\ IsComplete(arg[1])) =>
        /\ (self.kind # "Javadoc" /\ pc = "init_config") => err = "none"
        /\ (self.kind # "Javadoc" /\ pc = "dump_config") =>
              /\ err = "none"
              /\ ret # None
              /\ DOMAIN ret[1] = Recognized
              /\ \A a \in Recognized : ret[1][a] = arg[1][a]
        /\ (self.kind = "Javadoc" /\ pc = "init_config") =>
              /\ err = "NotImplementedError"
              /\ DOMAIN self.attrs = Recognized
              /\ \A a \in Recognized : self.attrs[a] = arg[1][a]

\* A Types instance has been initialised from a record with an attribute
\* beyond the recognized ones and has dumped the recognized part of it.
C1_Witness ==
    /\ pc = "dump_config"
    /\ self.kind = "Types"
    /\ arg # None
    /\ DOMAIN arg[1] = Recognized \cup {"latent_size"}
    /\ arg[1]["units"] = 16
    /\ ret = Some(Restrict(arg[1]))

AllNamesValid(js) == \A i \in 1..Len(js) : js[i]["name"] \in ValidNames

ClaimedKind(name) ==
    CASE name = "keywords" -> "Keywords"
      [] name = "types"    -> "Types"
      [] name = "context"  -> "Context"

\* C2: for a config list whose names are all among keywords, types and
\* context, read_config returns a list as long as the config list, its i-th
\* instance of the kind the i-th name stands for, holding the i-th entry's
\* attributes, its embedding loaded, and each embedding loaded once, in order.
C2_ReadConfig ==
    (pc = "read_config" /\ AllNamesValid(arg[1])) =>
        LET js == arg[1]
        IN  /\ err = "none"
            /\ ret # None
            /\ Len(ret[1]) = Len(js)
            /\ Len(opened) = Len(js)
            /\ \A i \in 1..Len(js) :
                  /\ ret[1][i].kind = ClaimedKind(js[i]["name"])
                  /\ ret[1][i].attrs = Restrict(js[i])
                  /\ ret[1][i].lda # NoLda
                  /\ opened[i] = ret[1][i].lda
            /\ \A i, j \in 1..Len(js) :
                  (opened[i] = opened[j]) <=> (js[i]["name"] = js[j]["name"])

\* read_config has returned the instances of a list naming types, keywords
\* and context, in that order.
C2_Witness ==
    /\ pc = "read_config"
    /\ Len(arg[1]) = 3
    /\ arg[1][1]["name"] = "types"
    /\ arg[1][2]["name"] = "keywords"
    /\ arg[1][3]["name"] = "context"
    /\ arg[1][1]["units"] # arg[1][2]["units"]
    /\ err = "none"
    /\ Len(ret[1]) = 3

FirstInvalid(js) ==
    CHOOSE i \in 1..Len(js) :
        /\ js[i]["name"] \notin ValidNames
        /\ \A j \in 1..(i - 1) : js[j]["name"] \in ValidNames

\* C3: when an entry has a name outside keywords, types and context
\* ('javadoc' included), read_config raises the invalid-name error and
\* returns no list; the instances constructed and the embeddings loaded are
\* those of the entries before the first such entry, and no others.
C3_InvalidName ==
    (pc = "read_config" /\ ~AllNamesValid(arg[1])) =>
        LET js == arg[1]
            k  == FirstInvalid(js)
        IN  /\ err = "TypeError"
            /\ ret = None
            /\ Len(heap) = k - 1
            /\ Len(opened) = k - 1
            /\ \A i \in 1..(k - 1) : heap[i].kind = ClaimedKind(js[i]["name"])

\* read_config has failed on a 'javadoc' entry that stands between two
\* valid entries.
C3_Witness ==
    /\ pc = "read_config"
    /\ Len(arg[1]) = 3
    /\ arg[1][1]["name"] = "context"
    /\ arg[1][2]["name"] = "javadoc"
    /\ arg[1][3]["name"] = "types"
    /\ err = "TypeError"
    /\ Len(heap) = 1

----------------------------------------------------------------------------
(* The claims about read_data_point.                                       *)

ClaimedField(kind) ==
    CASE kind = "Keywords" -> "keywords"
      [] kind = "Types"    -> "types"
      [] kind = "Context"  -> "context"

C4_Bag ==
    pc = "read_data_point" =>
        LET program == arg[1]
            field   == ClaimedField(self.kind)
        IN  /\ err = "none"
            /\ ret # None
            /\ NoDuplicates(ret[1])
            /\ IF field \in DOMAIN program
               THEN Range(ret[1]) = Range(program[field])
               ELSE ret[1] = <<>>

C4_Pure == [][pc' = "read_data_point" => (arg' = arg /\ self' = self)]_vars

\* C4: read_data_point of Keywords, Types and Context returns a list without
\* duplicates whose elements are those of the record's field of that kind,
\* the empty list without an error when the field is absent, and leaves the
\* program record and the instance as they were.
C4_Dedup == []C4_Bag /\ C4_Pure

\* Types.read_data_point has returned two tokens for a types field of three
\* entries, one of them a repeat, in a record that has other fields too.
C4_Witness ==
    /\ pc = "read_data_point"
    /\ self.kind = "Types"
    /\ DOMAIN arg[1] = {"keywords", "types"}
    /\ arg[1]["types"] = <<"list", "add", "list">>
    /\ arg[1]["keywords"] = <<"add">>
    /\ ret = Some(<<"add", "list">>)

\* toks are the whitespace-delimited words of s, in order: no word is empty
\* or holds whitespace, together they are the non-whitespace characters of s,
\* and there is one for each place of s where a word starts.
NotSpace(c) == ~IsSpace(c)

IsWordsOf(toks, s) ==
    /\ \A i \in 1..Len(toks) :
          toks[i] # <<>> /\ \A j \in 1..Len(toks[i]) : ~IsSpace(toks[i][j])
    /\ Flatten(toks) = SelectSeq(s, NotSpace)
    /\ Len(toks) = Cardinality({i \in 1..Len(s) :
                                   ~IsSpace(s[i]) /\ (i = 1 \/ IsSpace(s[i - 1]))})

\* C5: Javadoc.read_data_point raises nothing on a record whose javadoc is
\* absent or a string; an absent, empty or not all-ASCII javadoc gives the
\* words of the sentinel UNK, any other the words of the javadoc string in
\* order, repeats kept.
C5_Javadoc ==
    pc = "read_data_point" =>
        LET program == arg[1]
            useUnk  == \/ "javadoc" \notin DOMAIN program
                       \/ program["javadoc"] = <<>>
                       \/ \E i \in 1..Len(program["javadoc"]) :
                             Ord(program["javadoc"][i]) > 127
        IN  /\ err = "none"
            /\ ret # None
            /\ IF useUnk THEN IsWordsOf(ret[1], UNK) /\ ret[1] = <<UNK>>
               ELSE IsWordsOf(ret[1], program["javadoc"])

\* Javadoc.read_data_point has returned the word a twice for "a \ta".
C5_Witness ==
    /\ pc = "read_data_point"
    /\ self.kind = "Javadoc"
    /\ "javadoc" \in DOMAIN arg[1]
    /\ arg[1]["javadoc"] = <<"a", " ", "\t", "a">>
    /\ ret = Some(<< <<"a">>, <<"a">> >>)

----------------------------------------------------------------------------
(* The claims about Javadoc.set_dicts.                                     *)

\* C6 as stated: after set_dicts the entries of vocab have distinct ids and
\* the ids are exactly 0..vocab_size-1.
C6_IdsAreDense ==
    (pc = "set_dicts" /\ err = "none") =>
        LET vocab == self.attrs["vocab"]
        IN  /\ \A c, d \in DOMAIN vocab : vocab[c] = vocab[d] => c = d
            /\ {vocab[c] : c \in DOMAIN vocab} = 0..(self.attrs["vocab_size"] - 1)

\* C7 as stated: after set_dicts vocab holds the padding symbol C0, with id 0.
C7_PaddingFirst ==
    (pc = "set_dicts" /\ err = "none") =>
        /\ C0 \in DOMAIN self.attrs["vocab"]
        /\ self.attrs["vocab"][C0] = 0

\* What does hold of set_dicts: the ids are distinct, vocab_size counts them,
\* and they are 0..vocab_size-1 exactly when no entry of chars repeats, as when
\* the corpus lacks C0, in which case C0 has id 0.
SetDicts_Ids ==
    (pc = "set_dicts" /\ err = "none") =>
        LET vocab == self.attrs["vocab"]
            chars == self.attrs["chars"]
            ids   == {vocab[c] : c \in DOMAIN vocab}
        IN  /\ \A c, d \in DOMAIN vocab : vocab[c] = vocab[d] => c = d
            /\ self.attrs["vocab_size"] = Cardinality(ids)
            /\ DOMAIN vocab = Range(chars)
            /\ (ids = 0..(self.attrs["vocab_size"] - 1)) <=> NoDuplicates(chars)
            /\ (~self.attrs["pretrained_embed"] /\ C0 \notin CorpusWords(arg[1])) =>
                  (NoDuplicates(chars) /\ vocab[C0] = 0)
            /\ self.attrs["pretrained_embed"] => chars = fs

----------------------------------------------------------------------------
(* The claims about from_call.                                             *)

\* The text of call before its first c, all of it if c is not in it.
RECURSIVE Before(_, _)
Before(call, c) ==
    IF call = <<>> \/ Head(call) = c THEN <<>>
    ELSE <<Head(call)>> \o Before(Tail(call), c)

DotSegments(call) == SplitOn(Before(call, "("), ".")

\* C8 as stated: Keywords.from_call returns a token list for every method
\* call, also one without a '.' before the '('; with class and member the
\* last two dot-segments, the list is empty when they are equal and the
\* camelCase split of the member otherwise.
C8_KeywordsTotal ==
    pc = "from_call" =>
        LET segs == DotSegments(arg[1])
        IN  /\ err = "none"
            /\ ret # None
            /\ Len(segs) >= 2 =>
                  ret[1] = IF segs[Len(segs) - 1] = segs[Len(segs)]
                           THEN <<>>
                           ELSE split_camel(segs[Len(segs)])

\* What does hold of Keywords.from_call: the claimed tokens when there is a
\* '.' before the '(', and ValueError when there is none.
Keywords_from_call_Dotted ==
    pc = "from_call" =>
        LET segs == DotSegments(arg[1])
        IN  IF Len(segs) >= 2
            THEN /\ err = "none"
                 /\ ret = Some(IF segs[Len(segs) - 1] = segs[Len(segs)]
                               THEN <<>>
                               ELSE split_camel(segs[Len(segs)]))
            ELSE err = "ValueError" /\ ret = None

\* The dot-segments before the last that start with an uppercase letter,
\* the nearest to the member first.
KeptSegments(call) ==
    LET segs   == DotSegments(call)
        before == SubSeq(segs, 1, Len(segs) - 1)
        Kept(q) == q # <<>> /\ IsUpper(q[1])
    IN  Reverse(SelectSeq(before, Kept))

\* C9 as stated: Types.from_call returns a result for every method call,
\* also one with no uppercase-starting segment or with an empty segment; with
\* segments kept, it is the camelCase split of the first kept segment
\* followed by that of the second, if there is one.
C9_TypesTotal ==
    pc = "from_call" =>
        LET kept == KeptSegments(arg[1])
        IN  /\ err = "none"
            /\ ret # None
            /\ kept # <<>> =>
                  ret[1] = split_camel(kept[1])
                           \o (IF Len(kept) > 1 THEN split_camel(kept[2]) ELSE <<>>)

\* What does hold of Types.from_call: the claimed tokens when no segment
\* before the last is empty and one of them starts with an uppercase letter,
\* and IndexError otherwise.
Types_from_call_Kept ==
    pc = "from_call" =>
        LET segs   == DotSegments(arg[1])
            before == SubSeq(segs, 1, Len(segs) - 1)
            kept   == KeptSegments(arg[1])
        IN  IF kept # <<>> /\ \A i \in 1..Len(before) : before[i] # <<>>
            THEN /\ err = "none"
                 /\ ret = Some(split_camel(kept[1])
                               \o (IF Len(kept) > 1 THEN split_camel(kept[2]) ELSE <<>>))
            ELSE err = "IndexError" /\ ret = None

\* The index in s of the ')' that closes the '(' at index open, 0 if none.
RECURSIVE ClosingFrom(_, _, _)
ClosingFrom(s, i, depth) ==
    IF i > Len(s) THEN 0
    ELSE IF s[i] = "(" THEN ClosingFrom(s, i + 1, depth + 1)
    ELSE IF s[i] = ")" THEN (IF depth = 0 THEN i ELSE ClosingFrom(s, i + 1, depth - 1))
    ELSE ClosingFrom(s, i + 1, depth)

\* The text between the first '(' of call and the ')' that matches it.
Arguments(call) ==
    LET open  == Len(Before(call, "(")) + 1
        close == ClosingFrom(call, open + 1, 0)
    IN  SubSeq(call, open + 1, close - 1)

CarriesMarker(token) ==
    \/ \E i \in 1..Len(token) : token[i] \in {"<", ">"}
    \/ \E i \in 1..(Len(token) - 1) : token[i] = "[" /\ token[i + 1] = "]"

\* C10 as stated: Context.from_call returns, for the arguments between the
\* first '(' and its matching ')' split on commas, the camelCase splits of
\* each argument's last dot-segment without its generic suffix and array
\* markers, in order and without empty tokens; no token of the result is
\* empty or carries a generic-type or array marker.
C10_ContextArguments ==
    pc = "from_call" =>
        LET args    == SplitOn(Arguments(arg[1]), ",")
            cleaned == [i \in 1..Len(args) |->
                           RemoveArrays(RemoveGenerics(Last(SplitOn(args[i], "."))))]
            tokens  == Flatten([i \in 1..Len(cleaned) |-> split_camel(cleaned[i])])
        IN  /\ err = "none"
            /\ ret = Some(SelectSeq(tokens, NonEmpty))
            /\ \A i \in 1..Len(ret[1]) : ret[1][i] # <<>> /\ ~CarriesMarker(ret[1][i])

\* What does hold of Context.from_call: it reads the arguments up to the
\* first '(' or ')' after the first '(', and returns no empty token.
Context_from_call_FirstClose ==
    pc = "from_call" =>
        LET after   == SubSeq(arg[1], Len(Before(arg[1], "(")) + 2, Len(arg[1]))
            inner   == Before(Before(after, "("), ")")
            args    == SplitOn(inner, ",")
            cleaned == [i \in 1..Len(args) |->
                           RemoveArrays(RemoveGenerics(Last(SplitOn(args[i], "."))))]
            tokens  == Flatten([i \in 1..Len(cleaned) |-> split_camel(cleaned[i])])
        IN  /\ err = "none"
            /\ ret = Some(SelectSeq(tokens, NonEmpty))
            /\ \A i \in 1..Len(ret[1]) : ret[1][i] # <<>>

====
